---- MODULE Spec2Model ----
\* HashSafe: SHA-256 of a file, from the command line (main, run_cli) or from
\* the graphical panel (gui::HashApp), both calling calculate_hash.
\*
\* Text (paths, output lines, hex digests, error messages) is a sequence of
\* one-character strings; a byte is a number in 0..255; Option<T> is a
\* sequence of length at most one; Result<T, E> is a record [ok, val].
EXTENDS Integers, Sequences, FiniteSets, TLC

\* ---------------------------------------------------------------------
\* Bounds of the model
\* ---------------------------------------------------------------------
\* Longest file content explored.
MaxLen == 3

\* Byte values file contents are drawn from ("a" and "b").
Bytes == {97, 98}

\* let mut buffer = [0; 1024];
BUFFER_LEN == 1024

\* Buffer lengths the read loop is run with: the program's, and two small
\* ones for which a file of MaxLen bytes needs several full-buffer reads.
ChunkSizes == {1, 2, BUFFER_LEN}

\* ---------------------------------------------------------------------
\* Option, Result
\* ---------------------------------------------------------------------
None == <<>>
Some(x) == <<x>>
IsSome(o) == o # <<>>
Unwrap(o) == o[1]

Ok(v) == [ok |-> TRUE, val |-> v]
Err(e) == [ok |-> FALSE, val |-> e]

\* ---------------------------------------------------------------------
\* SHA-256 (FIPS 180-4) as computed by sha2::Sha256.  A 32-bit word is the
\* pair <<hi, lo>> of its 16-bit halves.
\* ---------------------------------------------------------------------
Pow2(n) == 2 ^ n

HALF == 2 ^ 16

Bit(a, k) == (a \div Pow2(k)) % 2

NibXor == [a \in 0..15 |-> [b \in 0..15 |->
             ((Bit(a, 0) + Bit(b, 0)) % 2)
           + 2 * ((Bit(a, 1) + Bit(b, 1)) % 2)
           + 4 * ((Bit(a, 2) + Bit(b, 2)) % 2)
           + 8 * ((Bit(a, 3) + Bit(b, 3)) % 2)]]

NibAnd == [a \in 0..15 |-> [b \in 0..15 |->
             (Bit(a, 0) * Bit(b, 0))
           + 2 * (Bit(a, 1) * Bit(b, 1))
           + 4 * (Bit(a, 2) * Bit(b, 2))
           + 8 * (Bit(a, 3) * Bit(b, 3))]]

Xor16(a, b) ==
    NibXor[(a % 16)][(b % 16)]
    + 16 * NibXor[(a \div 16) % 16][(b \div 16) % 16]
    + 256 * NibXor[(a \div 256) % 16][(b \div 256) % 16]
    + 4096 * NibXor[a \div 4096][b \div 4096]

And16(a, b) ==
    NibAnd[(a % 16)][(b % 16)]
    + 16 * NibAnd[(a \div 16) % 16][(b \div 16) % 16]
    + 256 * NibAnd[(a \div 256) % 16][(b \div 256) % 16]
    + 4096 * NibAnd[a \div 4096][b \div 4096]

WXor(x, y) == <<Xor16(x[1], y[1]), Xor16(x[2], y[2])>>
WAnd(x, y) == <<And16(x[1], y[1]), And16(x[2], y[2])>>
WNot(x) == <<HALF - 1 - x[1], HALF - 1 - x[2]>>

\* wrapping_add on u32
WAdd(x, y) ==
    LET lo == x[2] + y[2]
    IN  <<(x[1] + y[1] + (lo \div HALF)) % HALF, lo % HALF>>

\* u32::rotate_right
Rotr(x, n) ==
    LET s == IF n >= 16 THEN <<x[2], x[1]>> ELSE x
        k == n % 16
    IN  IF k = 0 THEN s
        ELSE <<(s[1] \div Pow2(k)) + (s[2] % Pow2(k)) * Pow2(16 - k),
               (s[2] \div Pow2(k)) + (s[1] % Pow2(k)) * Pow2(16 - k)>>

\* u32 >> n
Shr(x, n) ==
    IF n >= 16 THEN <<0, x[1] \div Pow2(n - 16)>>
    ELSE <<x[1] \div Pow2(n),
           (x[2] \div Pow2(n)) + (x[1] % Pow2(n)) * Pow2(16 - n)>>

Ch(x, y, z) == WXor(WAnd(x, y), WAnd(WNot(x), z))
Maj(x, y, z) == WXor(WXor(WAnd(x, y), WAnd(x, z)), WAnd(y, z))
BigSigma0(x) == WXor(WXor(Rotr(x, 2), Rotr(x, 13)), Rotr(x, 22))
BigSigma1(x) == WXor(WXor(Rotr(x, 6), Rotr(x, 11)), Rotr(x, 25))
SmallSigma0(x) == WXor(WXor(Rotr(x, 7), Rotr(x, 18)), Shr(x, 3))
SmallSigma1(x) == WXor(WXor(Rotr(x, 17), Rotr(x, 19)), Shr(x, 10))

K32 == <<
    <<17034, 12184>>, <<28983, 17553>>, <<46528, 64463>>, <<59829, 56229>>,
    <<14678, 49755>>, <<23025, 4593>>, <<37439, 33444>>, <<43804, 24277>>,
    <<55303, 43672>>, <<4739, 23297>>, <<9265, 34238>>, <<21772, 32195>>,
    <<29374, 23924>>, <<32990, 45566>>, <<39900, 1703>>, <<49563, 61812>>,
    <<58523, 27073>>, <<61374, 18310>>, <<4033, 40390>>, <<9228, 41420>>,
    <<11753, 11375>>, <<19060, 33962>>, <<23728, 43484>>, <<30457, 35034>>,
    <<38974, 20818>>, <<43057, 50797>>, <<45059, 10184>>, <<48985, 32711>>,
    <<50912, 3059>>, <<54695, 37191>>, <<1738, 25425>>, <<5161, 10599>>,
    <<10167, 2693>>, <<11803, 8504>>, <<19756, 28156>>, <<21304, 3347>>,
    <<25866, 29524>>, <<30314, 2747>>, <<33218, 51502>>, <<37490, 11397>>,
    <<41663, 59553>>, <<43034, 26187>>, <<49739, 35696>>, <<51052, 20899>>,
    <<53650, 59417>>, <<54937, 1572>>, <<62478, 13701>>, <<4202, 41072>>,
    <<6564, 49430>>, <<7735, 27656>>, <<10056, 30540>>, <<13488, 48309>>,
    <<14620, 3251>>, <<20184, 43594>>, <<23452, 51791>>, <<26670, 28659>>,
    <<29839, 33518>>, <<30885, 25455>>, <<33992, 30740>>, <<36039, 520>>,
    <<37054, 65530>>, <<42064, 27883>>, <<48889, 41975>>, <<50801, 30962>>
>>

H256_INIT == <<
    <<27145, 58983>>, <<47975, 44677>>, <<15470, 62322>>, <<42319, 62778>>,
    <<20750, 21119>>, <<39685, 26764>>, <<8067, 55723>>, <<23520, 52505>>
>>

\* Big-endian load of the sixteen words of a 64-byte block.
BlockWords(block) ==
    [i \in 1..16 |-> <<block[4 * i - 3] * 256 + block[4 * i - 2],
                       block[4 * i - 1] * 256 + block[4 * i]>>]

RECURSIVE Schedule(_)
Schedule(w) ==
    IF Len(w) = 64 THEN w
    ELSE LET t == Len(w) + 1
         IN  Schedule(Append(w,
                 WAdd(WAdd(SmallSigma1(w[t - 2]), w[t - 7]),
                      WAdd(SmallSigma0(w[t - 15]), w[t - 16]))))

\* One round of the compression function on the working variables a..h.
Round(v, wt, kt) ==
    LET t1 == WAdd(WAdd(WAdd(v[8], BigSigma1(v[5])),
                        WAdd(Ch(v[5], v[6], v[7]), kt)), wt)
        t2 == WAdd(BigSigma0(v[1]), Maj(v[1], v[2], v[3]))
    IN  <<WAdd(t1, t2), v[1], v[2], v[3], WAdd(v[4], t1), v[5], v[6], v[7]>>

\* The 64 rounds; s.t is the round about to run, s.v the working variables.
RECURSIVE Rounds(_, _)
Rounds(s, w) ==
    IF s.t > 64 THEN s.v
    ELSE Rounds([t |-> s.t + 1, v |-> Round(s.v, w[s.t], K32[s.t])], w)

\* compress256 on one block
Compress(state, block) ==
    LET w == Schedule(BlockWords(block))
        r == Rounds([t |-> 1, v |-> state], w)
    IN  [i \in 1..8 |-> WAdd(state[i], r[i])]

\* Sha256::new()
Sha256New == [state |-> H256_INIT, buffer |-> <<>>, len |-> 0]

RECURSIVE Absorb(_, _)
Absorb(state, bytes) ==
    IF Len(bytes) < 64 THEN [state |-> state, buffer |-> bytes]
    ELSE Absorb(Compress(state, SubSeq(bytes, 1, 64)),
                SubSeq(bytes, 65, Len(bytes)))

\* Digest::update
Sha256Update(h, data) ==
    LET a == Absorb(h.state, h.buffer \o data)
    IN  [state |-> a.state, buffer |-> a.buffer, len |-> h.len + Len(data)]

Zeros(n) == [i \in 1..n |-> 0]

WordBytes(x) == <<x[1] \div 256, x[1] % 256, x[2] \div 256, x[2] % 256>>

\* The number of bits absorbed, 8 * len as u64, as 8 big-endian bytes.
\* Byte k of the product is taken from len itself, so that no intermediate
\* value exceeds len; the three leading bytes are 0 for every len below
\* 2 ^ 31.
BitLenBytes(len) ==
    <<0, 0, 0,
      (len \div (2 ^ 29)) % 256,
      (len \div (2 ^ 21)) % 256,
      (len \div (2 ^ 13)) % 256,
      (len \div (2 ^ 5)) % 256,
      (len % (2 ^ 5)) * 8>>

\* Digest::finalize
Sha256Finalize(h) ==
    LET n == Len(h.buffer)
        padz == IF n < 56 THEN 55 - n ELSE 119 - n
        lenbytes == BitLenBytes(h.len)
        a == Absorb(h.state, h.buffer \o <<128>> \o Zeros(padz) \o lenbytes)
    IN  WordBytes(a.state[1]) \o WordBytes(a.state[2]) \o WordBytes(a.state[3])
        \o WordBytes(a.state[4]) \o WordBytes(a.state[5]) \o WordBytes(a.state[6])
        \o WordBytes(a.state[7]) \o WordBytes(a.state[8])

HEX_CHARS_LOWER == <<"0", "1", "2", "3", "4", "5", "6", "7",
                     "8", "9", "a", "b", "c", "d", "e", "f">>

HEX_CHARS_UPPER == <<"0", "1", "2", "3", "4", "5", "6", "7",
                     "8", "9", "A", "B", "C", "D", "E", "F">>

\* As HexEncode, with the upper-case alphabet (hex::encode_upper).
HexEncodeUpper(bytes) ==
    [i \in 1..(2 * Len(bytes)) |->
        LET b == bytes[(i + 1) \div 2]
        IN  HEX_CHARS_UPPER[(IF i % 2 = 1 THEN b \div 16 ELSE b % 16) + 1]]

\* hex::encode
HexEncode(bytes) ==
    [i \in 1..(2 * Len(bytes)) |->
        LET b == bytes[(i + 1) \div 2]
        IN  HEX_CHARS_LOWER[(IF i % 2 = 1 THEN b \div 16 ELSE b % 16) + 1]]


\* ---------------------------------------------------------------------
\* Text written by the program
\* ---------------------------------------------------------------------
STATUS_PREFIX == <<
    "C", "a", "l", "c", "u", "l", "a", "t", "i", "n", "g", " ", "h", "a",
    "s", "h", " ", "f", "o", "r", ":", " ">>

RESULT_PREFIX == <<
    "S", "H", "A", "-", "2", "5", "6", " ", "H", "a", "s", "h", ":", " ">>

CALC_ERROR_PREFIX == <<
    "E", "r", "r", "o", "r", " ", "c", "a", "l", "c", "u", "l", "a", "t",
    "i", "n", "g", " ", "h", "a", "s", "h", ":", " ">>

MAIN_ERROR_PREFIX == <<
    "E", "r", "r", "o", "r", ":", " ">>

NO_FILE_MESSAGE == <<
    "I", "n", " ", "C", "L", "I", " ", "m", "o", "d", "e", ",", " ", "y",
    "o", "u", " ", "m", "u", "s", "t", " ", "s", "p", "e", "c", "i", "f",
    "y", " ", "a", " ", "f", "i", "l", "e", " ", "w", "i", "t", "h", " ",
    "-", "-", "f", "i", "l", "e">>

GUI_ERROR_PREFIX == <<
    "E", "r", "r", "o", "r", " ", "s", "t", "a", "r", "t", "i", "n", "g",
    " ", "G", "U", "I", ":", " ">>

NO_GUI_MESSAGE_1 == <<
    "T", "h", "i", "s", " ", "v", "e", "r", "s", "i", "o", "n", " ", "w",
    "a", "s", " ", "c", "o", "m", "p", "i", "l", "e", "d", " ", "w", "i",
    "t", "h", "o", "u", "t", " ", "G", "U", "I", " ", "s", "u", "p", "p",
    "o", "r", "t", ".">>

NO_GUI_MESSAGE_2 == <<
    "U", "s", "e", " ", "-", "-", "f", "i", "l", "e", " ", "t", "o", " ",
    "s", "p", "e", "c", "i", "f", "y", " ", "a", " ", "f", "i", "l", "e",
    " ", "i", "n", " ", "C", "L", "I", " ", "m", "o", "d", "e", ".">>

MSG_NOT_FOUND == <<
    "N", "o", " ", "s", "u", "c", "h", " ", "f", "i", "l", "e", " ", "o",
    "r", " ", "d", "i", "r", "e", "c", "t", "o", "r", "y", " ", "(", "o",
    "s", " ", "e", "r", "r", "o", "r", " ", "2", ")">>

MSG_PERMISSION_DENIED == <<
    "P", "e", "r", "m", "i", "s", "s", "i", "o", "n", " ", "d", "e", "n",
    "i", "e", "d", " ", "(", "o", "s", " ", "e", "r", "r", "o", "r", " ",
    "1", "3", ")">>

MSG_READ_FAILED == <<
    "I", "n", "p", "u", "t", "/", "o", "u", "t", "p", "u", "t", " ", "e",
    "r", "r", "o", "r", " ", "(", "o", "s", " ", "e", "r", "r", "o", "r",
    " ", "5", ")">>

\* Display of std::io::Error, by the kind of failure.
Display(e) ==
    CASE e = "NotFound" -> MSG_NOT_FOUND
      [] e = "PermissionDenied" -> MSG_PERMISSION_DENIED
      [] OTHER -> MSG_READ_FAILED

\* ---------------------------------------------------------------------
\* The file system as calculate_hash sees it
\* ---------------------------------------------------------------------
\* Every byte sequence of at most n bytes.
RECURSIVE SeqsUpTo(_)
SeqsUpTo(n) ==
    IF n = 0 THEN {<<>>}
    ELSE LET shorter == SeqsUpTo(n - 1)
         IN  shorter \cup {Append(s, b) : s \in {t \in shorter : Len(t) = n - 1},
                                          b \in Bytes}

Contents == SeqsUpTo(MaxLen)

\* What a path names: a readable file, nothing, or a file that may not be
\* opened.
DiskEntries ==
    {[kind |-> "file", content |-> c] : c \in Contents}
    \cup {[kind |-> "missing", content |-> <<>>],
          [kind |-> "denied", content |-> <<>>]}

\* File::open(path)
OpenResult(entry) ==
    CASE entry.kind = "file" -> Ok(0)
      [] entry.kind = "missing" -> Err("NotFound")
      [] OTHER -> Err("PermissionDenied")

Min(a, b) == IF a < b THEN a ELSE b

\* ---------------------------------------------------------------------
\* calculate_hash, one step at a time.  c is the activation record:
\*   pc          "open" | "read" | "update" | "finalize" | "returned"
\*   pos         bytes of the file consumed through the reader
\*   buffer      the reusable chunk buffer
\*   bytes_read  result of the last read
\*   hasher      the Sha256 accumulator
\*   ret         the returned io::Result<String>, once returned
\*   fed         every byte passed to hasher.update so far, in call order
\*   reads       number of reader.read calls issued
\*   updates     number of hasher.update calls made
\* ---------------------------------------------------------------------
CalcEntry(path) ==
    [pc |-> "open", path |-> path, pos |-> 0, buffer |-> <<>>,
     bytes_read |-> 0, hasher |-> Sha256New, ret |-> None,
     fed |-> <<>>, reads |-> 0, updates |-> 0]

\* As CalcOpen, but reading a file that cannot be opened as an empty one.
CalcOpenIgnoreFailure(c, entry, n) ==
    [c EXCEPT !.pc = "read", !.pos = 0, !.hasher = Sha256New,
              !.buffer = Zeros(n)]

\* let file = File::open(path)?;  and the three declarations after it
CalcOpen(c, entry, n) ==
    LET r == OpenResult(entry)
    IN  IF r.ok
        THEN [c EXCEPT !.pc = "read", !.pos = r.val, !.hasher = Sha256New,
                       !.buffer = Zeros(n)]
        ELSE [c EXCEPT !.pc = "returned", !.ret = Some(Err(r.val))]

\* The counts a successful reader.read(&mut buffer) may return: zero exactly
\* at end of file, otherwise at least one byte and at most what fits.
ReadCounts(c, entry) ==
    LET remaining == Len(entry.content) - c.pos
    IN  IF remaining = 0 THEN {0}
        ELSE 1..Min(Len(c.buffer), remaining)

\* As UpdateSlice, but handing over the whole buffer: hasher.update(&buffer).
UpdateSliceWholeBuffer(c) == c.buffer

\* The part of the buffer handed to the accumulator.
UpdateSlice(c) == SubSeq(c.buffer, 1, c.bytes_read)

\* As CalcReadOk, without the test for the end of the file: every read,
\* empty or not, goes on to hasher.update and to the next read.
CalcReadOkNoBreak(c, entry, k) ==
    [c EXCEPT !.buffer = [i \in 1..Len(c.buffer) |->
                             IF i <= k THEN entry.content[c.pos + i]
                             ELSE c.buffer[i]],
              !.pos = c.pos + k,
              !.bytes_read = k,
              !.reads = c.reads + 1,
              !.pc = "update"]

\* let bytes_read = reader.read(&mut buffer)?;  returning Ok(k)
\* if bytes_read == 0 { break; }
CalcReadOk(c, entry, k) ==
    [c EXCEPT !.buffer = [i \in 1..Len(c.buffer) |->
                             IF i <= k THEN entry.content[c.pos + i]
                             ELSE c.buffer[i]],
              !.pos = c.pos + k,
              !.bytes_read = k,
              !.reads = c.reads + 1,
              !.pc = IF k = 0 THEN "finalize" ELSE "update"]

\* As CalcReadErr, but taking a failed read for the end of the file:
\* reader.read(&mut buffer).unwrap_or(0).
CalcReadErrAsEof(c, e) ==
    [c EXCEPT !.reads = c.reads + 1, !.bytes_read = 0, !.pc = "finalize"]

\* let bytes_read = reader.read(&mut buffer)?;  returning Err(e)
CalcReadErr(c, e) ==
    [c EXCEPT !.reads = c.reads + 1, !.pc = "returned", !.ret = Some(Err(e))]

\* As CalcUpdate, but with the accumulator created anew for every chunk.
CalcUpdateFreshHasher(c) ==
    [c EXCEPT !.hasher = Sha256Update(Sha256New, UpdateSlice(c)),
              !.fed = c.fed \o UpdateSlice(c),
              !.updates = c.updates + 1,
              !.pc = "read"]

\* hasher.update(&buffer[..bytes_read]);
CalcUpdate(c) ==
    [c EXCEPT !.hasher = Sha256Update(c.hasher, UpdateSlice(c)),
              !.fed = c.fed \o UpdateSlice(c),
              !.updates = c.updates + 1,
              !.pc = "read"]

\* let hash = hasher.finalize();  Ok(hex::encode(hash))
CalcFinalize(c) ==
    [c EXCEPT !.pc = "returned",
              !.ret = Some(Ok(HexEncode(Sha256Finalize(c.hasher))))]

\* Errors a read may fail with.
ReadErrors == {"ReadFailed"}

\* ---------------------------------------------------------------------
\* State
\* ---------------------------------------------------------------------
VARIABLES
    args,       \* Args: [file: Option<PathBuf>, cli: bool]
    disk,       \* what args.file names on disk
    buflen,     \* length of calculate_hash's buffer
    pc,         \* where main is
    ch,         \* the activation of calculate_hash called by run_cli
    io_error,   \* Option: the failure the file system answered open or
                \* read with, once it has
    stdout,     \* lines written to standard output
    stderr,     \* lines written to the error stream
    exit_code,  \* Option: the process exit code once the process has ended
    gui_run,    \* what became of the graphical panel: "none" while not
                \* attempted, "unavailable", "ok" or "failed"
    app,        \* gui::HashApp: selected_file, hash_result, calculating, rx, tx
    workers,    \* the threads spawned by Calculate Hash, in spawn order
    result_chans,   \* per worker, the channel carrying its outcome
    cancel_chans,   \* per worker, the channel carrying the cancel request
    hist        \* history of the panel: which computation hash_result came
                \* from, which were cancelled, which were delivered

cliVars == <<args, disk, buflen, pc, ch, io_error, stdout, stderr, exit_code, gui_run>>
guiVars == <<app, workers, result_chans, cancel_chans, hist>>
vars == <<cliVars, guiVars>>

\* Paths given on the command line.
Paths == {<<"a">>, <<"b">>}

\* Messages eframe::run_native may fail with.
GuiErrors == {<<"n", "o", " ", "d", "i", "s", "p", "l", "a", "y">>}

NoDisk == [kind |-> "missing", content |-> <<>>]

\* impl Default for HashApp
HashAppDefault ==
    [selected_file |-> None, hash_result |-> None, calculating |-> FALSE,
     rx |-> None, tx |-> None]

HistInit ==
    [result_from |-> None, cancel_clicked |-> {}, cancel_sent |-> {},
     delivered |-> {}]

Init ==
    /\ args \in [file : {None} \cup {Some(p) : p \in Paths}, cli : BOOLEAN]
    /\ disk \in IF IsSome(args.file) THEN DiskEntries ELSE {NoDisk}
    /\ buflen \in IF IsSome(args.file) /\ disk.kind = "file"
                  THEN ChunkSizes ELSE {BUFFER_LEN}
    /\ pc = "main"
    /\ ch = CalcEntry(<<>>)
    /\ io_error = None
    /\ stdout = <<>>
    /\ stderr = <<>>
    /\ exit_code = None
    /\ gui_run = "none"
    /\ app = HashAppDefault
    /\ workers = <<>>
    /\ result_chans = <<>>
    /\ cancel_chans = <<>>
    /\ hist = HistInit

\* ---------------------------------------------------------------------
\* main and run_cli
\* ---------------------------------------------------------------------
\* As CliMode, without the test of --file: if args.cli
CliModeCliOnly(a) == a.cli

\* if args.cli || args.file.is_some()
CliMode(a) == a.cli \/ IsSome(a.file)

\* if let Some(file_path) = args.file { ... run_cli(file_path) ...
MainRunCli ==
    /\ pc = "main"
    /\ CliMode(args)
    /\ IsSome(args.file)
    /\ pc' = "run_cli"
    /\ UNCHANGED <<args, disk, buflen, io_error, ch, stdout, stderr,
                  exit_code, gui_run, guiVars>>

\* As MainNoFile, but returning from main after the message.
MainNoFileExitZero ==
    /\ pc = "main"
    /\ CliMode(args)
    /\ ~IsSome(args.file)
    /\ stderr' = Append(stderr, NO_FILE_MESSAGE)
    /\ exit_code' = Some(0)
    /\ pc' = "exited"
    /\ UNCHANGED <<args, disk, buflen, io_error, ch, stdout, gui_run, guiVars>>

\* } else { eprintln!("In CLI mode, ..."); std::process::exit(1); }
MainNoFile ==
    /\ pc = "main"
    /\ CliMode(args)
    /\ ~IsSome(args.file)
    /\ stderr' = Append(stderr, NO_FILE_MESSAGE)
    /\ exit_code' = Some(1)
    /\ pc' = "exited"
    /\ UNCHANGED <<args, disk, buflen, io_error, ch, stdout, gui_run, guiVars>>

\* #[cfg(feature = "gui")]: gui::run_gui() returned Ok(()) and main returns.
MainGuiOk ==
    /\ pc = "main"
    /\ ~CliMode(args)
    /\ gui_run' = "ok"
    /\ exit_code' = Some(0)
    /\ pc' = "exited"
    /\ UNCHANGED <<args, disk, buflen, io_error, ch, stdout, stderr, guiVars>>

\* #[cfg(feature = "gui")]: if let Err(e) = gui::run_gui() { ... exit(1) }
MainGuiErr ==
    /\ pc = "main"
    /\ ~CliMode(args)
    /\ \E e \in GuiErrors :
          stderr' = Append(stderr, GUI_ERROR_PREFIX \o e)
    /\ gui_run' = "failed"
    /\ exit_code' = Some(1)
    /\ pc' = "exited"
    /\ UNCHANGED <<args, disk, buflen, io_error, ch, stdout, guiVars>>

\* #[cfg(not(feature = "gui"))]: two eprintln! and exit(1)
MainNoGui ==
    /\ pc = "main"
    /\ ~CliMode(args)
    /\ stderr' = stderr \o <<NO_GUI_MESSAGE_1, NO_GUI_MESSAGE_2>>
    /\ gui_run' = "unavailable"
    /\ exit_code' = Some(1)
    /\ pc' = "exited"
    /\ UNCHANGED <<args, disk, buflen, io_error, ch, stdout, guiVars>>

\* As RunCliStatus, but announcing the result before computing it.
RunCliStatusEarlyResult ==
    /\ pc = "run_cli"
    /\ stdout' = stdout \o <<STATUS_PREFIX \o Unwrap(args.file), RESULT_PREFIX>>
    /\ ch' = CalcEntry(Unwrap(args.file))
    /\ pc' = "calculate_hash"
    /\ UNCHANGED <<args, disk, buflen, io_error, stderr, exit_code, gui_run,
                  guiVars>>

\* println!("Calculating hash for: {}", file_path.display());
\* and the call of calculate_hash(&file_path)
RunCliStatus ==
    /\ pc = "run_cli"
    /\ stdout' = Append(stdout, STATUS_PREFIX \o Unwrap(args.file))
    /\ ch' = CalcEntry(Unwrap(args.file))
    /\ pc' = "calculate_hash"
    /\ UNCHANGED <<args, disk, buflen, io_error, stderr, exit_code, gui_run,
                  guiVars>>

CliOpen ==
    /\ pc = "calculate_hash"
    /\ ch.pc = "open"
    /\ ch' = CalcOpen(ch, disk, buflen)
    /\ io_error' = IF OpenResult(disk).ok THEN None
                   ELSE Some(OpenResult(disk).val)
    /\ UNCHANGED <<args, disk, buflen, pc, stdout, stderr, exit_code,
                  gui_run, guiVars>>

CliReadOk ==
    /\ pc = "calculate_hash"
    /\ ch.pc = "read"
    /\ \E k \in ReadCounts(ch, disk) : ch' = CalcReadOk(ch, disk, k)
    /\ UNCHANGED <<args, disk, buflen, io_error, pc, stdout, stderr,
                  exit_code, gui_run, guiVars>>

CliReadErr ==
    /\ pc = "calculate_hash"
    /\ ch.pc = "read"
    /\ \E e \in ReadErrors :
          /\ ch' = CalcReadErr(ch, e)
          /\ io_error' = Some(e)
    /\ UNCHANGED <<args, disk, buflen, pc, stdout, stderr, exit_code,
                  gui_run, guiVars>>

CliUpdate ==
    /\ pc = "calculate_hash"
    /\ ch.pc = "update"
    /\ ch' = CalcUpdate(ch)
    /\ UNCHANGED <<args, disk, buflen, io_error, pc, stdout, stderr,
                  exit_code, gui_run, guiVars>>

CliFinalize ==
    /\ pc = "calculate_hash"
    /\ ch.pc = "finalize"
    /\ ch' = CalcFinalize(ch)
    /\ UNCHANGED <<args, disk, buflen, io_error, pc, stdout, stderr,
                  exit_code, gui_run, guiVars>>

\* Ok(hash) => { println!("SHA-256 Hash: {}", hash); Ok(()) }
RunCliOk ==
    /\ pc = "calculate_hash"
    /\ ch.pc = "returned"
    /\ Unwrap(ch.ret).ok
    /\ stdout' = Append(stdout, RESULT_PREFIX \o Unwrap(ch.ret).val)
    /\ pc' = "run_cli_ok"
    /\ UNCHANGED <<args, disk, buflen, io_error, ch, stderr, exit_code,
                  gui_run, guiVars>>

\* Err(e) => { eprintln!("Error calculating hash: {}", e); Err(e) }
RunCliErr ==
    /\ pc = "calculate_hash"
    /\ ch.pc = "returned"
    /\ ~Unwrap(ch.ret).ok
    /\ stderr' = Append(stderr, CALC_ERROR_PREFIX \o Display(Unwrap(ch.ret).val))
    /\ pc' = "run_cli_err"
    /\ UNCHANGED <<args, disk, buflen, io_error, ch, stdout, exit_code,
                  gui_run, guiVars>>

\* run_cli returned Ok(()): main falls off its end.
MainReturn ==
    /\ pc = "run_cli_ok"
    /\ exit_code' = Some(0)
    /\ pc' = "exited"
    /\ UNCHANGED <<args, disk, buflen, io_error, ch, stdout, stderr, gui_run,
                  guiVars>>

\* if let Err(e) = run_cli(file_path) { eprintln!("Error: {}", e); exit(1) }
MainRunCliErr ==
    /\ pc = "run_cli_err"
    /\ stderr' = Append(stderr, MAIN_ERROR_PREFIX \o Display(Unwrap(ch.ret).val))
    /\ exit_code' = Some(1)
    /\ pc' = "exited"
    /\ UNCHANGED <<args, disk, buflen, io_error, ch, stdout, gui_run, guiVars>>

Next ==
    \/ MainRunCli
    \/ MainNoFile
    \/ MainGuiOk
    \/ MainGuiErr
    \/ MainNoGui
    \/ RunCliStatus
    \/ CliOpen
    \/ CliReadOk
    \/ CliReadErr
    \/ CliUpdate
    \/ CliFinalize
    \/ RunCliOk
    \/ RunCliErr
    \/ MainReturn
    \/ MainRunCliErr

Spec == Init /\ [][Next]_vars

\* A step of calculate_hash up to the end of its loop.
LoopStep == CliOpen \/ CliReadOk \/ CliReadErr \/ CliUpdate

\* The invoking thread keeps running: the loop, once entered, is carried on.
SpecFair == Spec /\ WF_vars(LoopStep)

\* ---------------------------------------------------------------------
\* The graphical panel: gui::HashApp::update, once per frame, and the
\* worker threads it spawns
\* ---------------------------------------------------------------------
\* Most computations started in one session.
MaxComputations == 2

\* What the paths the file dialog offers name on disk.
GuiDisk ==
    [p \in Paths |-> IF p = <<"a">>
                     THEN [kind |-> "file", content |-> <<97, 98>>]
                     ELSE [kind |-> "missing", content |-> <<>>]]

\* Every state one step of calculate_hash can lead to from c.
CalcSteps(c, entry, n) ==
    CASE c.pc = "open" -> {CalcOpen(c, entry, n)}
      [] c.pc = "read" -> {CalcReadOk(c, entry, k) : k \in ReadCounts(c, entry)}
                          \cup {CalcReadErr(c, e) : e \in ReadErrors}
      [] c.pc = "update" -> {CalcUpdate(c)}
      [] c.pc = "finalize" -> {CalcFinalize(c)}
      [] OTHER -> {}

\* Every value calculate_hash can return once it has reached c.
RECURSIVE CalcReturns(_, _, _)
CalcReturns(c, entry, n) ==
    IF c.pc = "returned" THEN {Unwrap(c.ret)}
    ELSE UNION {CalcReturns(d, entry, n) : d \in CalcSteps(c, entry, n)}

\* calculate_hash(&path_clone) in a worker: what it can return, by path.
GuiOutcomes ==
    [p \in Paths |-> CalcReturns(CalcEntry(p), GuiDisk[p], BUFFER_LEN)]

\* result.map_err(|e| e.to_string())
MapErrToString(r) == IF r.ok THEN r ELSE Err(Display(r.val))

\* The panel's state as one record, for the steps of update.
GuiState ==
    [app |-> app, workers |-> workers, result_chans |-> result_chans,
     cancel_chans |-> cancel_chans, hist |-> hist]

\* As SelectFile, but also ending the wait for the computation under way,
\* without cancelling it: self.calculating = false.
SelectFileStopsWaiting(g, pick) ==
    IF IsSome(pick)
    THEN [g EXCEPT !.app.selected_file = pick,
                   !.app.hash_result = None,
                   !.app.calculating = FALSE,
                   !.hist.result_from = None]
    ELSE g

\* if let Some(path) = FileDialog::new().pick_file() { ... }
SelectFile(g, pick) ==
    IF IsSome(pick)
    THEN [g EXCEPT !.app.selected_file = pick,
                   !.app.hash_result = None,
                   !.hist.result_from = None]
    ELSE g

\* The body of the Calculate Hash click: two channels, a worker thread.
Dispatch(g) ==
    LET id == Len(g.workers) + 1
    IN  [g EXCEPT !.app.calculating = TRUE,
                  !.app.rx = Some(id),
                  !.app.tx = Some(id),
                  !.workers = Append(@, [pc |-> "calculate_hash",
                                         path |-> Unwrap(g.app.selected_file),
                                         result |-> None]),
                  !.result_chans = Append(@, [queue |-> <<>>, rx_alive |-> TRUE]),
                  !.cancel_chans = Append(@, [queue |-> <<>>, rx_alive |-> TRUE])]

\* As Poll, but taking only a digest: if let Ok(Ok(hash)) = rx.try_recv()
PollDigestOnly(g) ==
    IF /\ IsSome(g.app.rx)
       /\ g.result_chans[Unwrap(g.app.rx)].queue # <<>>
       /\ Head(g.result_chans[Unwrap(g.app.rx)].queue).ok
    THEN LET id == Unwrap(g.app.rx)
         IN  [g EXCEPT !.app.hash_result = Some(Head(g.result_chans[id].queue)),
                       !.app.calculating = FALSE,
                       !.app.rx = None,
                       !.app.tx = None,
                       !.result_chans[id] = [queue |-> <<>>, rx_alive |-> FALSE],
                       !.hist.result_from = Some(id),
                       !.hist.delivered = @ \cup {id}]
    ELSE g

\* if let Some(rx) = &self.rx { if let Ok(result) = rx.try_recv() { ... } }
Poll(g) ==
    IF IsSome(g.app.rx) /\ g.result_chans[Unwrap(g.app.rx)].queue # <<>>
    THEN LET id == Unwrap(g.app.rx)
         IN  [g EXCEPT !.app.hash_result = Some(Head(g.result_chans[id].queue)),
                       !.app.calculating = FALSE,
                       !.app.rx = None,
                       !.app.tx = None,
                       !.result_chans[id] = [queue |-> <<>>, rx_alive |-> FALSE],
                       !.hist.result_from = Some(id),
                       !.hist.delivered = @ \cup {id}]
    ELSE g

\* As Cancel, but only signalling the worker: the panel keeps waiting.
CancelOnlySignals(g) ==
    IF IsSome(g.app.tx)
    THEN LET id == Unwrap(g.app.tx)
         IN  [g EXCEPT !.cancel_chans[id].queue =
                           IF g.cancel_chans[id].rx_alive THEN Append(@, "cancel")
                           ELSE @,
                       !.hist.cancel_sent = @ \cup {id}]
    ELSE g

\* The body of the Cancel click:
\* if let Some(tx) = &self.tx { let _ = tx.send(()); }
\* self.calculating = false; self.rx = None; self.tx = None;
Cancel(g) ==
    LET sent == IF IsSome(g.app.tx)
                THEN LET id == Unwrap(g.app.tx)
                     IN  [g EXCEPT !.cancel_chans[id].queue =
                                       IF g.cancel_chans[id].rx_alive
                                       THEN Append(@, "cancel") ELSE @,
                                   !.hist.cancel_sent = @ \cup {id}]
                ELSE g
        dropped == IF IsSome(g.app.rx)
                   THEN [sent EXCEPT !.result_chans[Unwrap(g.app.rx)] =
                                         [queue |-> <<>>, rx_alive |-> FALSE]]
                   ELSE sent
    IN  [dropped EXCEPT !.app.calculating = FALSE,
                        !.app.rx = None,
                        !.app.tx = None]

\* The Cancel button of this frame was clicked while computation
\* g.app.rx was awaited.
NoteCancelClick(g) ==
    [g EXCEPT !.hist.cancel_clicked = @ \cup {Unwrap(g.app.rx)}]

\* let result = calculate_hash(&path_clone); in worker w, returning r.
ThreadCalc(g, w, r) ==
    [g EXCEPT !.workers[w].result = Some(r),
              !.workers[w].pc = "try_recv"]

\* if cancel_rx.try_recv().is_ok() { return; } in worker w.
ThreadTryRecv(g, w) ==
    IF g.cancel_chans[w].queue # <<>>
    THEN [g EXCEPT !.workers[w].pc = "done",
                   !.cancel_chans[w] = [queue |-> <<>>, rx_alive |-> FALSE]]
    ELSE [g EXCEPT !.workers[w].pc = "send"]

\* let _ = result_tx.send(result.map_err(|e| e.to_string())); in worker w,
\* and the end of the thread, which drops cancel_rx.
ThreadSend(g, w) ==
    [g EXCEPT !.result_chans[w].queue =
                  IF g.result_chans[w].rx_alive
                  THEN Append(@, MapErrToString(Unwrap(g.workers[w].result)))
                  ELSE @,
              !.cancel_chans[w].rx_alive = FALSE,
              !.workers[w].pc = "done"]

\* How far a thread gets while update goes from thread::spawn to the poll
\* of the same call: the number of its steps and what calculate_hash
\* returns in it.
Headway(path) == [steps : 0..3, result : GuiOutcomes[path]]

\* The thread spawned in this call of update, running beside it up to the
\* poll.
SpawnedRuns(g, run) ==
    LET w == Len(g.workers)
        s1 == IF run.steps >= 1 THEN ThreadCalc(g, w, run.result) ELSE g
        s2 == IF run.steps >= 2 THEN ThreadTryRecv(s1, w) ELSE s1
        s3 == IF run.steps >= 3 /\ s2.workers[w].pc = "send"
              THEN ThreadSend(s2, w) ELSE s2
    IN  s3

\* HashApp::update for one frame.  click is the button the pointer clicked
\* in this frame, if any; pick is what the file dialog returned; run is the
\* headway a thread spawned in this frame makes before the frame's poll.
\* Steps of threads between the other statements of the frame have the
\* effect they have before or after the frame.
Update(g, click, pick, run) ==
    LET g1 == IF click = "select" THEN SelectFile(g, pick) ELSE g
        g2 == IF /\ IsSome(g1.app.selected_file)
                 /\ ~g1.app.calculating
                 /\ click = "calculate"
              THEN SpawnedRuns(Dispatch(g1), run) ELSE g1
        shown == g2.app.calculating
        g3 == IF shown /\ click = "cancel" THEN NoteCancelClick(g2) ELSE g2
        g4 == IF shown THEN Poll(g3) ELSE g3
        g5 == IF shown /\ click = "cancel" THEN Cancel(g4) ELSE g4
    IN  g5

GuiBecomes(g) ==
    /\ app' = g.app
    /\ workers' = g.workers
    /\ result_chans' = g.result_chans
    /\ cancel_chans' = g.cancel_chans
    /\ hist' = g.hist

\* A frame without a click.
UpdateIdle ==
    /\ \E g \in {Update(GuiState, "none", None, None)} : GuiBecomes(g)
    /\ UNCHANGED cliVars

\* A frame with a click on Select File.
UpdateSelectFile ==
    /\ \E pick \in {None} \cup {Some(p) : p \in Paths} :
          \E g \in {Update(GuiState, "select", pick, None)} : GuiBecomes(g)
    /\ UNCHANGED cliVars

\* A frame with a click on Calculate Hash, which is drawn only while a file
\* is selected and nothing is being calculated.
UpdateCalculate ==
    /\ IsSome(app.selected_file)
    /\ ~app.calculating
    /\ Len(workers) < MaxComputations
    /\ \E run \in Headway(Unwrap(app.selected_file)) :
          \E g \in {Update(GuiState, "calculate", None, run)} : GuiBecomes(g)
    /\ UNCHANGED cliVars

\* A frame with a click on Cancel, which is drawn only while calculating.
UpdateCancel ==
    /\ app.calculating
    /\ \E g \in {Update(GuiState, "cancel", None, None)} : GuiBecomes(g)
    /\ UNCHANGED cliVars

\* let result = calculate_hash(&path_clone);
WorkerCalc(w) ==
    /\ workers[w].pc = "calculate_hash"
    /\ \E r \in GuiOutcomes[workers[w].path] :
          \E g \in {ThreadCalc(GuiState, w, r)} : GuiBecomes(g)
    /\ UNCHANGED cliVars

\* if cancel_rx.try_recv().is_ok() { return; }
WorkerTryRecv(w) ==
    /\ workers[w].pc = "try_recv"
    /\ \E g \in {ThreadTryRecv(GuiState, w)} : GuiBecomes(g)
    /\ UNCHANGED cliVars

\* let _ = result_tx.send(result.map_err(|e| e.to_string()));
\* and the end of the thread, which drops cancel_rx.
WorkerSend(w) ==
    /\ workers[w].pc = "send"
    /\ \E g \in {ThreadSend(GuiState, w)} : GuiBecomes(g)
    /\ UNCHANGED cliVars

\* The panel as run_gui starts it: Box::new(HashApp::default())
InitGui ==
    /\ args = [file |-> None, cli |-> FALSE]
    /\ disk = NoDisk
    /\ buflen = BUFFER_LEN
    /\ pc = "run_gui"
    /\ ch = CalcEntry(<<>>)
    /\ io_error = None
    /\ stdout = <<>>
    /\ stderr = <<>>
    /\ exit_code = None
    /\ gui_run = "none"
    /\ app = HashAppDefault
    /\ workers = <<>>
    /\ result_chans = <<>>
    /\ cancel_chans = <<>>
    /\ hist = HistInit

Frame == UpdateIdle \/ UpdateSelectFile \/ UpdateCalculate \/ UpdateCancel

WorkerStep(w) ==
    /\ w \in 1..Len(workers)
    /\ (WorkerCalc(w) \/ WorkerTryRecv(w) \/ WorkerSend(w))

NextGui ==
    \/ UpdateIdle
    \/ UpdateSelectFile
    \/ UpdateCalculate
    \/ UpdateCancel
    \/ \E w \in 1..Len(workers) : WorkerCalc(w)
    \/ \E w \in 1..Len(workers) : WorkerTryRecv(w)
    \/ \E w \in 1..Len(workers) : WorkerSend(w)

SpecGui == InitGui /\ [][NextGui]_vars

\* The renderer redraws for ever (update ends with ctx.request_repaint())
\* and every spawned thread keeps running.
SpecGuiFair ==
    /\ SpecGui
    /\ WF_vars(Frame)
    /\ \A w \in 1..MaxComputations : WF_vars(WorkerStep(w))

\* ---------------------------------------------------------------------
\* Properties of calculate_hash, run_cli and main
\* ---------------------------------------------------------------------
Returned(c) == c.pc = "returned"
ReturnedOk(c) == Returned(c) /\ Unwrap(c.ret).ok
ReturnedErr(c) == Returned(c) /\ ~Unwrap(c.ret).ok

HasPrefix(line, prefix) ==
    /\ Len(line) >= Len(prefix)
    /\ SubSeq(line, 1, Len(prefix)) = prefix

HexDigits == {HEX_CHARS_LOWER[i] : i \in 1..16}

\* SHA-256 of a whole message handed over in one piece, in hexadecimal.
ReferenceDigest ==
    [m \in Contents |-> HexEncode(Sha256Finalize(Sha256Update(Sha256New, m)))]

\* The read loop run on a file with a buffer of n bytes, every read filling
\* as much of the buffer as the file still has.
RECURSIVE RunLoop(_, _)
RunLoop(c, entry) ==
    CASE c.pc = "read" ->
             RunLoop(CalcReadOk(c, entry, Min(Len(c.buffer),
                                              Len(entry.content) - c.pos)), entry)
      [] c.pc = "update" -> RunLoop(CalcUpdate(c), entry)
      [] c.pc = "finalize" -> RunLoop(CalcFinalize(c), entry)
      [] OTHER -> c

\* The digest the loop returns when it reads the file one byte at a time.
ByteAtATimeDigest ==
    [m \in Contents |->
        LET entry == [kind |-> "file", content |-> m]
        IN  Unwrap(RunLoop(CalcOpen(CalcEntry(<<>>), entry, 1), entry).ret).val]

\* C1: when open and all reads succeed, calculate_hash returns the hex
\* encoding of SHA-256 of the file's full content, and the bytes passed to
\* hasher.update, concatenated in call order, are exactly the file content
\* (all along the loop, the part of the content read so far).
C1_HashOfFullContent ==
    /\ ch.pc \in {"read", "finalize"} =>
          ch.fed = SubSeq(disk.content, 1, ch.pos)
    /\ ch.pc = "update" =>
          ch.fed = SubSeq(disk.content, 1, ch.pos - ch.bytes_read)
    /\ ReturnedOk(ch) =>
          /\ ch.fed = disk.content
          /\ Unwrap(ch.ret).val = ReferenceDigest[disk.content]

C1_Witness ==
    /\ ReturnedOk(ch)
    /\ Len(disk.content) >= 2
    /\ ch.updates >= 2

\* C2: for the same content the digest is the same for every buffer length
\* and every pattern of short reads: it is the digest obtained by reading
\* the file one byte at a time.
C2_ChunkSizeIndependent ==
    ReturnedOk(ch) => Unwrap(ch.ret).val = ByteAtATimeDigest[disk.content]

\* A short read following a full-buffer read, with a buffer of two bytes.
C2_Witness ==
    /\ ReturnedOk(ch)
    /\ buflen = 2
    /\ disk.content = <<97, 98, 97>>
    /\ ch.reads = 3
    /\ ch.buffer = <<97, 98>>

\* C3: a failed open or read makes calculate_hash return that error, at
\* once: no hex string, no retry, no further read.
C3_FailureIsReturned ==
    /\ [](IsSome(io_error) => /\ Returned(ch)
                              /\ ch.ret = Some(Err(Unwrap(io_error))))
    /\ [][IsSome(io_error) => ch' = ch]_vars

\* A read failing after a chunk was already fed to the accumulator.
C3_Witness ==
    /\ io_error = Some("ReadFailed")
    /\ ch.updates >= 1
    /\ pc = "exited"

\* C4: with a path that cannot be opened, the run ends with a non-zero exit
\* code and a message on the error stream, and never writes a line that
\* begins with "SHA-256 Hash: " to standard output.
C4_UnopenablePath ==
    (IsSome(args.file) /\ disk.kind # "file") =>
        /\ \A i \in 1..Len(stdout) : ~HasPrefix(stdout[i], RESULT_PREFIX)
        /\ pc = "exited" => /\ IsSome(exit_code)
                            /\ Unwrap(exit_code) # 0
                            /\ stderr # <<>>
                            /\ HasPrefix(stderr[1], CALC_ERROR_PREFIX)

C4_Witness ==
    /\ IsSome(args.file)
    /\ disk.kind = "missing"
    /\ pc = "exited"

\* The result line was printed.
ResultLinePrinted ==
    \E i \in 1..Len(stdout) : HasPrefix(stdout[i], RESULT_PREFIX)

\* C5: the exit code is 0 on success and 1 in every failure case (no file in
\* non-interactive mode, hash failure, panel startup failure, no panel in
\* the build); in non-interactive mode it is 0 exactly when calculate_hash
\* returned Ok and the result line was printed.
C5_ExitCode ==
    pc = "exited" =>
        /\ exit_code \in {Some(0), Some(1)}
        /\ exit_code = Some(1) <=>
              \/ CliMode(args) /\ ~IsSome(args.file)
              \/ ReturnedErr(ch)
              \/ gui_run \in {"failed", "unavailable"}
        /\ CliMode(args) =>
              (exit_code = Some(0) <=> (ReturnedOk(ch) /\ ResultLinePrinted))

C5_Witness ==
    /\ pc = "exited"
    /\ exit_code = Some(1)
    /\ ReturnedErr(ch)
    /\ ch.updates >= 1

\* calculate_hash was called.
Called(c) == c.path # <<>>

\* C6: --file forces non-interactive mode with or without --cli; --cli
\* without --file exits 1 without calling calculate_hash or launching the
\* panel; the panel is launched (or reported unavailable) only when neither
\* flag is given.
C6_ModeSelection ==
    /\ IsSome(args.file) =>
          /\ gui_run = "none"
          /\ pc \notin {"main", "run_cli"} => Called(ch)
    /\ (args.cli /\ ~IsSome(args.file)) =>
          /\ gui_run = "none"
          /\ ~Called(ch)
          /\ pc = "exited" => exit_code = Some(1)
    /\ gui_run # "none" => (~args.cli /\ ~IsSome(args.file))
    /\ (~args.cli /\ ~IsSome(args.file) /\ pc = "exited") =>
          (gui_run # "none" /\ ~Called(ch))

\* --file without --cli ran the hash.
C6_Witness ==
    /\ IsSome(args.file)
    /\ ~args.cli
    /\ pc = "exited"
    /\ ReturnedOk(ch)

\* C7: a successful non-interactive run writes exactly two lines to standard
\* output: the status line naming the file, then "SHA-256 Hash: " followed
\* by the 64 lower-case hexadecimal characters of the digest.
C7_TwoLines ==
    (pc = "exited" /\ CliMode(args) /\ exit_code = Some(0)) =>
        /\ Len(stdout) = 2
        /\ stdout[1] = STATUS_PREFIX \o Unwrap(args.file)
        /\ HasPrefix(stdout[2], RESULT_PREFIX)
        /\ Len(stdout[2]) = Len(RESULT_PREFIX) + 64
        /\ \A i \in (Len(RESULT_PREFIX) + 1)..Len(stdout[2]) :
              stdout[2][i] \in HexDigits
        /\ SubSeq(stdout[2], Len(RESULT_PREFIX) + 1, Len(stdout[2]))
              = Unwrap(ch.ret).val

C7_Witness ==
    /\ pc = "exited"
    /\ CliMode(args)
    /\ exit_code = Some(0)
    /\ Len(disk.content) = 0

\* C8 as stated: nothing is written to standard output or to the error
\* stream before calculate_hash has returned.
C8_NoOutputBeforeReturn ==
    IsSome(args.file) =>
        ((stdout # <<>> \/ stderr # <<>>) => Returned(ch))

\* C8, amended: before calculate_hash has returned, nothing is written to
\* the error stream and nothing but the status line to standard output; the
\* status line is written before calculate_hash is called.
C8_OnlyStatusBeforeReturn ==
    (IsSome(args.file) /\ ~Returned(ch)) =>
        /\ stderr = <<>>
        /\ stdout \in {<<>>, <<STATUS_PREFIX \o Unwrap(args.file)>>}
        /\ Called(ch) => stdout = <<STATUS_PREFIX \o Unwrap(args.file)>>

\* calculate_hash is in its read loop and the status line is out.
C8_Witness ==
    /\ IsSome(args.file)
    /\ ch.pc = "update"
    /\ stdout = <<STATUS_PREFIX \o Unwrap(args.file)>>

\* ---------------------------------------------------------------------
\* Properties of the panel
\* ---------------------------------------------------------------------
\* C9 as stated: once Cancel is clicked for a computation, its outcome is
\* never stored in hash_result.
C9_ClickedNeverStored == hist.cancel_clicked \cap hist.delivered = {}

\* C9, amended: once update has run the Cancel branch with tx still set
\* (the poll of that frame received nothing), the outcome of that
\* computation is never stored in hash_result, whatever the worker does
\* next; and the Cancel branch leaves the worker running.
C9_CancelledNeverStored ==
    /\ [](/\ hist.cancel_sent \cap hist.delivered = {}
          /\ IsSome(hist.result_from) =>
                Unwrap(hist.result_from) \notin hist.cancel_sent)
    /\ [][hist'.cancel_sent # hist.cancel_sent => workers' = workers]_vars

\* The worker passed its try_recv before the cancel was sent, finished and
\* tried to send its outcome.
C9_Witness ==
    \E id \in hist.cancel_sent :
        /\ workers[id].pc = "done"
        /\ cancel_chans[id].queue # <<>>

\* C10: the outcome of a computation that is started and not cancelled is
\* eventually received by the poll, which stores it in hash_result, be it
\* a digest or an error message, and resets calculating.
C10_OutcomeDelivered ==
    /\ \A id \in 1..MaxComputations :
          (id <= Len(workers)) ~>
              (id \in hist.cancel_clicked \/ id \in hist.delivered)
    /\ [][\A id \in hist'.delivered \ hist.delivered :
             /\ app'.hash_result
                   = Some(MapErrToString(Unwrap(workers'[id].result)))
             /\ ~app'.calculating
             /\ app'.rx = None]_vars

\* An error outcome on display.
C10_Witness ==
    /\ IsSome(hist.result_from)
    /\ IsSome(app.hash_result)
    /\ ~Unwrap(app.hash_result).ok
    /\ ~app.calculating

\* ---------------------------------------------------------------------
\* Termination of the read loop
\* ---------------------------------------------------------------------
\* C11: the read loop ends for every finite file.  It stops at the first
\* read that returns zero bytes, calls hasher.update only after a read of
\* at least one byte, and reaches finalization after at most Len(content)
\* non-empty reads and one empty read.
C11_LoopTerminates ==
    /\ [](/\ ch.pc = "update" => ch.bytes_read > 0
          /\ ch.updates <= ch.pos
          /\ ch.pos <= Len(disk.content)
          /\ ch.reads <= Len(disk.content) + 1
          /\ ch.pc = "finalize" =>
                /\ ch.bytes_read = 0
                /\ ch.pos = Len(disk.content)
                /\ ch.reads = ch.updates + 1)
    /\ [][(ch.pc = "read" /\ ch'.pc = "update") => ch'.pos > ch.pos]_vars
    /\ (ch.pc = "read") ~> (ch.pc \in {"finalize", "returned"})

\* A file of two bytes or more read one byte at a time: as many non-empty
\* reads as the file has bytes, then the empty read.
C11_Witness ==
    /\ ch.pc = "finalize"
    /\ Len(disk.content) >= 2
    /\ ch.updates = Len(disk.content)
    /\ ch.reads = Len(disk.content) + 1

\* ---------------------------------------------------------------------
\* The panel's result and its workers
\* ---------------------------------------------------------------------
\* C12: whenever hash_result holds a value, it is the outcome of hashing
\* the file held in selected_file.
C12_ResultOfSelectedFile ==
    (IsSome(app.hash_result) /\ IsSome(hist.result_from)) =>
        /\ workers[Unwrap(hist.result_from)].path = Unwrap(app.selected_file)
        /\ Unwrap(app.hash_result) \in
              {MapErrToString(r) : r \in GuiOutcomes[Unwrap(app.selected_file)]}

\* Workers that are inside calculate_hash.
Computing == {w \in 1..Len(workers) : workers[w].pc = "calculate_hash"}

\* C13 as stated: at most one worker is executing calculate_hash at any
\* time.
C13_OneWorkerComputing == Cardinality(Computing) <= 1

\* C13, amended: every worker that has not ended and was not cancelled is
\* the one the panel is waiting for, so at most one worker that was not
\* cancelled is executing calculate_hash at any time; cancelled workers go
\* on computing beside it.
C13_OneAwaitedWorker ==
    \A w \in 1..Len(workers) :
        (workers[w].pc # "done" /\ w \notin hist.cancel_sent) =>
            (app.calculating /\ app.rx = Some(w) /\ app.tx = Some(w))

\* A cancelled worker and its successor, both inside calculate_hash.
C13_Witness ==
    \E v \in Computing, w \in Computing :
        /\ v < w
        /\ v \in hist.cancel_sent
        /\ app.rx = Some(w)
====
